---- MODULE Spec2Model ----
(***************************************************************************)
(* a555watch: the polling / history / selection state machine of main.go.  *)
(*                                                                         *)
(* The interactive program is a bubbletea model: model.Update handles one  *)
(* message at a time; the commands it returns run outside the loop and     *)
(* deliver their result as a later message, in no fixed order.  The        *)
(* classic (no-TUI) program is the loop of mainClassic.                    *)
(*                                                                         *)
(* Time values are the ordinal of the capture (1, 2, ...); a nil           *)
(* *time.Time is NoTime.  The timer counts in ticks of one second.         *)
(* The list records the cursor as the index into the visible items (the    *)
(* model held by Update never receives a size, so a page holds one item    *)
(* and the index is the page number).                                      *)
(***************************************************************************)
EXTENDS Integers, Sequences, FiniteSets, TLC

\* Number of command completion events the model follows.
MaxRuns == 3

\* flagInterval, in timer ticks (timer.New counts down by one second).
Interval == 2

\* A nil *time.Time.
NoTime == 0

\* Standard outputs of the watched command.
Outputs == {"a", "b"}

\* The id of the zero timer.Model newModel leaves in the model.
ZeroTimerId == 0

\* The text typed into the list filter. Titles are time stamps, and the
\* term is the start of a time stamp that the first FilterUpTo captures
\* share and the later ones do not.
FilterTerm == "x"

FilterUpTo == 2

FilterMatch(t) == t <= FilterUpTo

Max(a, b) == IF a > b THEN a ELSE b

VARIABLES
    errExit,     \* model.errExit
    chgExit,     \* model.chgExit
    lineDiff,    \* model.lineDiff
    follow,      \* model.follow
    paused,      \* model.paused
    focus,       \* model.focus: "pager" or "list"
    hist,        \* model.hist: capture time -> historyEntry
    prevT,       \* model.prevT
    seleT,       \* model.seleT
    pager,       \* the content set on model.pager
    timerM,      \* model.timer
    lastId,      \* the timer package's id counter
    list,        \* model.list
    listSelect,  \* whether keys.listSelect is enabled
    msgs,        \* messages of finished commands not yet handled by Update
    inflight,    \* number of runCmd invocations that have not completed
    runs,        \* number of completion events handled
    outs,        \* the outputs of the completion events handled, in order
    lastErr,     \* the error of the last completion event handled
    printed,     \* error texts written by printErr
    done,        \* the program has returned from Run
    exitCode,    \* the process exit code, once done
    sinceResume, \* timer decrements since that resume key
    ndiffs,      \* number of diffs doSwitchContent has computed
    resumedAt,   \* the time left on the timer when the resume key found it
                 \* stopped by the pause (-1: no such resume for this timer)
    cl           \* the state of the classic loop

vars == <<errExit, chgExit, lineDiff, follow, paused, focus, hist, prevT,
          seleT, pager, timerM, lastId, list, listSelect, msgs, inflight,
          runs, outs, lastErr, printed, done, exitCode, sinceResume, resumedAt,
          ndiffs, cl>>

----------------------------------------------------------------------------
(* historyEntry and listItem *)

errTxtExit == "Watched program exit with non-zero exit status"

errTxtChg == "Watched program output changed"

NoDiff == "nil"

newHistoryEntry(txt, p) ==
    [plain |-> txt, prevT |-> p, diffC |-> NoDiff, diffL |-> NoDiff]

\* newListItem, had it set the three counters to zero.
newListItemZeroed(t) == [t |-> t, stats |-> "0"]

\* levDist, additions and deletions are set together by listItem.update;
\* stats names the diff mode they were computed from, "n/a" while nil.
newListItem(t) == [t |-> t, stats |-> "n/a"]

\* intp2String: "n/a" for a nil counter, else the number, which the model
\* names by the diff it was counted from.
intp2String(v) == IF v = "n/a" THEN "n/a" ELSE v

\* listItem.Description: what the item shows for lev, + and -.
Description(i) ==
    [lev |-> intp2String(i.stats),
     additions |-> intp2String(i.stats),
     deletions |-> intp2String(i.stats)]

NoItem == [t |-> NoTime, stats |-> "n/a"]

\* The newest capture's time, the key of the last entry added to hist.
Newest == Len(hist)

----------------------------------------------------------------------------
(* bubbles/list as used by the model *)

VisibleItems(l) == IF l.filterState # "unfiltered" THEN l.filtered ELSE l.items

SelectedItem(l) ==
    LET vis == VisibleItems(l)
    IN  IF l.index < 0 \/ Len(vis) = 0 \/ Len(vis) <= l.index
        THEN NoItem
        ELSE vis[l.index + 1]

\* Paginator.TotalPages - 1; TotalPages is set by updatePagination only.
LastPage(l) == l.totalPages - 1

updatePagination(l) ==
    LET pages == Max(Len(VisibleItems(l)), 1)
    IN  [l EXCEPT !.totalPages = pages,
                  !.index = IF l.index >= pages - 1 THEN pages - 1 ELSE l.index]

updateKeybindings(l) == [l EXCEPT !.fresh = FALSE]

\* CursorUp: the previous page, and on it the last item the page shows.
ListCursorUp(l) ==
    LET n == Len(VisibleItems(l))
    IN  [l EXCEPT !.index = IF l.index = 0 THEN 0
                            ELSE IF n >= 1 /\ l.index - 1 >= n THEN n - 1
                            ELSE l.index - 1]

\* CursorDown: the next page, unless on the last page.
ListCursorDown(l) ==
    [l EXCEPT !.index = IF l.index # LastPage(l) THEN l.index + 1 ELSE l.index]

GoToStart(l) == [l EXCEPT !.index = 0]

GoToEnd(l) == [l EXCEPT !.index = LastPage(l)]

\* The items a filter command computes from the list it was created with.
filterItems(l) ==
    IF l.filterValue = "" \/ l.filterState = "unfiltered"
    THEN l.items
    ELSE SelectSeq(l.items, LAMBDA it : FilterMatch(it.t))

FilterMsg(l) == [type |-> "filter", id |-> 0, running |-> FALSE, items |-> filterItems(l)]

\* The messages InsertItem and SetItem return: a filter command when a
\* filter is being set or is applied.
FilterCmds(l) == IF l.filterState # "unfiltered" THEN {FilterMsg(l)} ELSE {}

InsertItem(l, item) ==
    updateKeybindings(updatePagination([l EXCEPT !.items = <<item>> \o l.items]))

\* SetItem writes at the given index of the full item list.
SetItem(l, i, item) ==
    IF i + 1 \in DOMAIN l.items
    THEN updatePagination([l EXCEPT !.items[i + 1] = item])
    ELSE l

resetFiltering(l) ==
    updateKeybindings(updatePagination(
        [l EXCEPT !.filterState = "unfiltered", !.filterValue = "", !.filtered = <<>>]))

ResetSelected(l) == [l EXCEPT !.index = 0]

HasItems(l) == Len(l.items) # 0

\* Whether the bindings of list.KeyMap match, after updateKeybindings.
BrowseKeysEnabled(l) == l.fresh \/ (l.filterState # "filtering" /\ HasItems(l))

ClearFilterEnabled(l) == l.fresh \/ l.filterState = "applied"

FilterKeyEnabled(l) == l.fresh \/ (l.filterState # "filtering" /\ HasItems(l))

----------------------------------------------------------------------------
(* messages and bubbles/timer *)

Msg(type, id, running) ==
    [type |-> type, id |-> id, running |-> running, items |-> <<>>]

QuitMsg == Msg("quit", 0, FALSE)

TickMsg(id) == Msg("tick", id, FALSE)

StartStopMsg(id, v) == Msg("startstop", id, v)

TimeoutMsg(id) == Msg("timeout", id, FALSE)

ZeroTimer == [Timeout |-> 0, running |-> FALSE, id |-> ZeroTimerId]

Timedout(tm) == tm.Timeout <= 0

Running(tm) == ~Timedout(tm) /\ tm.running

\* timer.New(m.interval)
TimerNew(id) == [Timeout |-> Interval, running |-> TRUE, id |-> id]

\* timer.Model.Toggle: the command's message carries the value computed now.
Toggle(tm) == StartStopMsg(tm.id, ~Running(tm))

ForThisTimer(tm, msg) == msg.id = 0 \/ msg.id = tm.id

\* The timer update, had a start given the timer its full interval again.
TimerUpdateRestart(tm, msg) ==
    CASE msg.type = "startstop" ->
            IF ForThisTimer(tm, msg)
            THEN [tm |-> [tm EXCEPT !.running = msg.running,
                                    !.Timeout = IF msg.running THEN Interval ELSE @],
                  cmds |-> {TickMsg(tm.id)}]
            ELSE [tm |-> tm, cmds |-> {}]
      [] msg.type = "tick" ->
            IF Running(tm) /\ ForThisTimer(tm, msg)
            THEN LET t2 == [tm EXCEPT !.Timeout = @ - 1]
                 IN  [tm |-> t2,
                      cmds |-> {TickMsg(tm.id)} \cup
                               (IF Timedout(t2) THEN {TimeoutMsg(tm.id)} ELSE {})]
            ELSE [tm |-> tm, cmds |-> {}]
      [] OTHER -> [tm |-> tm, cmds |-> {}]

\* timer.Model.Update: the new timer and the messages of its commands.
TimerUpdate(tm, msg) ==
    CASE msg.type = "startstop" ->
            IF ForThisTimer(tm, msg)
            THEN [tm |-> [tm EXCEPT !.running = msg.running],
                  cmds |-> {TickMsg(tm.id)}]
            ELSE [tm |-> tm, cmds |-> {}]
      [] msg.type = "tick" ->
            IF Running(tm) /\ ForThisTimer(tm, msg)
            THEN LET t2 == [tm EXCEPT !.Timeout = @ - 1]
                 IN  [tm |-> t2,
                      cmds |-> {TickMsg(tm.id)} \cup
                               (IF Timedout(t2) THEN {TimeoutMsg(tm.id)} ELSE {})]
            ELSE [tm |-> tm, cmds |-> {}]
      [] OTHER -> [tm |-> tm, cmds |-> {}]

----------------------------------------------------------------------------
(* the model value handled by Update; cmds are the messages of the commands
   it returns, started the runCmd commands among them *)

Model ==
    [errExit |-> errExit, chgExit |-> chgExit, lineDiff |-> lineDiff,
     follow |-> follow, paused |-> paused, focus |-> focus, hist |-> hist,
     prevT |-> prevT, seleT |-> seleT, pager |-> pager, timerM |-> timerM,
     lastId |-> lastId, list |-> list, listSelect |-> listSelect,
     printed |-> printed, cmds |-> {}, started |-> 0, earlyExit |-> FALSE,
     ndiffs |-> 0]

Content(mode, p, t) == <<mode, p, t>>

NoContent == Content("none", NoTime, NoTime)

\* doSwitchContent, had it computed the diff without looking at the cache.
doSwitchContentRecompute(m, changedDiffMode) ==
    LET sli == SelectedItem(m.list)
    IN  IF sli = NoItem
        THEN [m EXCEPT !.printed = @ \cup {"Unexpected list item type"},
                       !.cmds = @ \cup {QuitMsg}]
        ELSE IF ~changedDiffMode /\ m.seleT # NoTime /\ sli.t = m.seleT
        THEN m
        ELSE LET seleHist == m.hist[sli.t]
                 mode == IF m.lineDiff THEN "L" ELSE "C"
                 cached == IF m.lineDiff THEN seleHist.diffL ELSE seleHist.diffC
                 diff == <<mode, seleHist.prevT, sli.t>>
                 l2 == SetItem(m.list, m.list.index, [sli EXCEPT !.stats = mode])
             IN  IF seleHist.prevT = NoTime
                 THEN [m EXCEPT !.pager = Content("plain", NoTime, sli.t),
                                !.seleT = sli.t]
                 ELSE IF TRUE
                 THEN [m EXCEPT
                         !.list = l2,
                         !.cmds = @ \cup FilterCmds(l2),
                         !.hist[sli.t] = IF m.lineDiff
                                         THEN [seleHist EXCEPT !.diffL = diff]
                                         ELSE [seleHist EXCEPT !.diffC = diff],
                         !.pager = diff,
                         !.seleT = sli.t,
                         !.ndiffs = @ + 1]
                 ELSE [m EXCEPT !.pager = cached, !.seleT = sli.t]

\* model.doSwitchContent
doSwitchContent(m, changedDiffMode) ==
    LET sli == SelectedItem(m.list)
    IN  IF sli = NoItem
        THEN [m EXCEPT !.printed = @ \cup {"Unexpected list item type"},
                       !.cmds = @ \cup {QuitMsg}]
        ELSE IF ~changedDiffMode /\ m.seleT # NoTime /\ sli.t = m.seleT
        THEN m
        ELSE LET seleHist == m.hist[sli.t]
                 mode == IF m.lineDiff THEN "L" ELSE "C"
                 cached == IF m.lineDiff THEN seleHist.diffL ELSE seleHist.diffC
                 diff == <<mode, seleHist.prevT, sli.t>>
                 l2 == SetItem(m.list, m.list.index, [sli EXCEPT !.stats = mode])
             IN  IF seleHist.prevT = NoTime
                 THEN [m EXCEPT !.pager = Content("plain", NoTime, sli.t),
                                !.seleT = sli.t]
                 ELSE IF cached = NoDiff
                 THEN [m EXCEPT
                         !.list = l2,
                         !.cmds = @ \cup FilterCmds(l2),
                         !.hist[sli.t] = IF m.lineDiff
                                         THEN [seleHist EXCEPT !.diffL = diff]
                                         ELSE [seleHist EXCEPT !.diffC = diff],
                         !.pager = diff,
                         !.seleT = sli.t,
                         !.ndiffs = @ + 1]
                 ELSE [m EXCEPT !.pager = cached, !.seleT = sli.t]

switchContent(m) == doSwitchContent(m, FALSE)

switchDiffContent(m) == doSwitchContent(m, TRUE)

\* The outcome of one command run: its output and its error.
\* A command that cannot be started has no output.
Results ==
    [out : Outputs, err : {"nil", "ExitError"}] \cup [out : {""}, err : {"launch"}]

\* isDifferent, had it looked for the output among all the captures stored.
IsDifferentFromAll(m, msgS) ==
    m.prevT = NoTime \/ \A i \in 1..Len(m.hist) : m.hist[i].plain # msgS

\* isDifferent of model.handleCmdCycle: the first output, or one that
\* differs from the newest capture.
IsDifferent(m, msgS) == m.prevT = NoTime \/ m.hist[m.prevT].plain # msgS

\* The store and selection, had the new capture been chained to the selected
\* capture instead of the newest one.
RecordOutputChainSelected(m, msgS) ==
    LET now == Len(m.hist) + 1
        first == m.prevT = NoTime
        isDifferent == IsDifferent(m, msgS)
        m1 == IF first
              THEN [m EXCEPT !.seleT = now, !.pager = Content("plain", NoTime, now)]
              ELSE m
        l2 == InsertItem(m1.list, newListItem(now))
        m2 == [m1 EXCEPT !.hist = Append(@, newHistoryEntry(msgS, m.seleT)),
                         !.prevT = now,
                         !.list = l2,
                         !.cmds = @ \cup FilterCmds(l2)]
    IN  IF ~isDifferent
        THEN [m |-> m1, isDifferent |-> FALSE]
        ELSE [m |-> IF m2.follow
                    THEN switchContent(m2)
                    ELSE [m2 EXCEPT !.list = ListCursorDown(@)],
              isDifferent |-> TRUE]

\* The store and selection part of model.handleCmdCycle (lines 532-555).
RecordOutput(m, msgS) ==
    LET now == Len(m.hist) + 1
        first == m.prevT = NoTime
        isDifferent == IsDifferent(m, msgS)
        m1 == IF first
              THEN [m EXCEPT !.seleT = now, !.pager = Content("plain", NoTime, now)]
              ELSE m
        l2 == InsertItem(m1.list, newListItem(now))
        m2 == [m1 EXCEPT !.hist = Append(@, newHistoryEntry(msgS, m.prevT)),
                         !.prevT = now,
                         !.list = l2,
                         !.cmds = @ \cup FilterCmds(l2)]
    IN  IF ~isDifferent
        THEN [m |-> m1, isDifferent |-> FALSE]
        ELSE [m |-> IF m2.follow
                    THEN switchContent(m2)
                    ELSE [m2 EXCEPT !.list = ListCursorDown(@)],
              isDifferent |-> TRUE]

Quit(m, text) ==
    [m EXCEPT !.printed = @ \cup {text}, !.cmds = {QuitMsg}, !.earlyExit = TRUE]

\* The exit check, had it treated every error as an exit status subject to
\* errexit.
ErrFatalOnlyWithErrExit(m, err) ==
    CASE err = "ExitError" /\ m.errExit -> errTxtExit
      [] err = "launch" /\ m.errExit -> "Failed to run command"
      [] OTHER -> ""

\* Whether the exit check of lines 557-568 ends the program, and with what text.
ErrFatal(m, err) ==
    CASE err = "ExitError" /\ m.errExit -> errTxtExit
      [] err = "launch" -> "Failed to run command"
      [] OTHER -> ""

\* The content-change check of line 570.
ChgFatal(m, isDifferent) == m.chgExit /\ m.prevT # NoTime /\ isDifferent

\* The re-arm, had it also started the command again at once.
RearmAndRun(m) ==
    IF ~m.paused
    THEN [m EXCEPT !.timerM = TimerNew(m.lastId + 1),
                   !.lastId = @ + 1,
                   !.cmds = @ \cup {TickMsg(m.lastId + 1)},
                   !.started = @ + 1]
    ELSE m

\* Lines 575-578: a new timer, unless paused.
Rearm(m) ==
    IF ~m.paused
    THEN [m EXCEPT !.timerM = TimerNew(m.lastId + 1),
                   !.lastId = @ + 1,
                   !.cmds = @ \cup {TickMsg(m.lastId + 1)}]
    ELSE m

\* handleCmdCycle, had it tested the content change before the error.
handleCmdCycleChgFirst(m, msg) ==
    LET r == RecordOutput(m, msg.out)
    IN  IF ChgFatal(r.m, r.isDifferent)
        THEN Quit(r.m, errTxtChg)
        ELSE IF ErrFatal(r.m, msg.err) # ""
        THEN Quit(r.m, ErrFatal(r.m, msg.err))
        ELSE Rearm(r.m)

\* model.handleCmdCycle
handleCmdCycle(m, msg) ==
    LET r == RecordOutput(m, msg.out)
    IN  IF ErrFatal(r.m, msg.err) # ""
        THEN Quit(r.m, ErrFatal(r.m, msg.err))
        ELSE IF ChgFatal(r.m, r.isDifferent)
        THEN Quit(r.m, errTxtChg)
        ELSE Rearm(r.m)

----------------------------------------------------------------------------
(* keys *)

\* Keys pressed while the list is not setting a filter.
BrowseKeys ==
    {"tab", "enter", "k", "j", "g", "G", "/", "esc", "K", "J", "d", "f", "p",
     "q", "ctrl+c"}

\* Keys pressed while the list is setting a filter: the filter term, its
\* removal, accept, cancel and force quit.
FilterKeys == {"x", "backspace", "enter", "esc", "ctrl+c"}

SettingFilter(l) == l.filterState = "filtering"

ToPager(m) == switchContent([m EXCEPT !.focus = "pager", !.listSelect = FALSE])

\* model.handleKey
handleKey(m, k) ==
    CASE k = "tab" ->
            IF m.focus = "list"
            THEN ToPager(m)
            ELSE [m EXCEPT !.focus = "list", !.listSelect = TRUE]
      [] k = "enter" /\ m.listSelect ->
            IF m.focus = "list" /\ ~SettingFilter(m.list) THEN ToPager(m) ELSE m
      [] k \in {"k", "j"} /\ BrowseKeysEnabled(m.list) ->
            IF m.focus = "list" THEN [m EXCEPT !.follow = FALSE] ELSE m
      [] k = "/" /\ FilterKeyEnabled(m.list) ->
            IF m.focus = "list" THEN [m EXCEPT !.listSelect = FALSE] ELSE m
      [] (k = "esc" /\ ClearFilterEnabled(m.list))
         \/ (k = "enter" /\ ~m.listSelect /\ m.list.fresh) ->
            IF m.focus = "list" THEN [m EXCEPT !.listSelect = TRUE] ELSE m
      [] k = "K" ->
            switchContent([m EXCEPT !.follow = FALSE, !.list = ListCursorUp(@)])
      [] k = "J" ->
            switchContent([m EXCEPT !.follow = FALSE, !.list = ListCursorDown(@)])
      [] k = "d" ->
            switchDiffContent([m EXCEPT !.lineDiff = ~@])
      [] k = "f" ->
            IF m.follow
            THEN [m EXCEPT !.follow = FALSE]
            ELSE LET l1 == resetFiltering(m.list)
                     i == l1.index
                     m1 == [m EXCEPT !.follow = TRUE, !.list = ResetSelected(l1)]
                 IN  IF m.focus = "pager" /\ i # 0 THEN switchContent(m1) ELSE m1
      [] k = "p" ->
            [m EXCEPT !.paused = ~@, !.cmds = @ \cup {Toggle(m.timerM)}]
      [] k \in {"q", "ctrl+c"} ->
            [m EXCEPT !.cmds = @ \cup {QuitMsg}]
      [] OTHER -> m

\* list.Model.handleBrowsing for a key
handleBrowsing(l, k) ==
    CASE k = "esc" /\ ClearFilterEnabled(l) -> resetFiltering(l)
      [] k = "k" /\ BrowseKeysEnabled(l) -> ListCursorUp(l)
      [] k = "j" /\ BrowseKeysEnabled(l) -> ListCursorDown(l)
      [] k = "g" /\ BrowseKeysEnabled(l) -> GoToStart(l)
      [] k = "G" /\ BrowseKeysEnabled(l) -> GoToEnd(l)
      [] k = "/" /\ FilterKeyEnabled(l) ->
            updateKeybindings(
                [l EXCEPT !.filtered = IF l.filterValue = "" THEN l.items ELSE @,
                          !.index = 0,
                          !.filterState = "filtering"])
      [] OTHER -> l

\* list.Model.handleFiltering for a key: the list and the filter command
handleFiltering(l, k) ==
    LET l1 == CASE k = "esc" -> resetFiltering(l)
                [] k = "enter" /\ l.filterValue # "" ->
                      IF Len(l.items) = 0 THEN l
                      ELSE IF Len(VisibleItems(l)) = 0 THEN resetFiltering(l)
                      ELSE updateKeybindings([l EXCEPT !.filterState = "applied"])
                [] OTHER -> l
        v2 == CASE k = "x" /\ l1.filterValue = "" -> FilterTerm
                [] k = "backspace" -> ""
                [] OTHER -> l1.filterValue
        l2 == [l1 EXCEPT !.filterValue = v2]
    IN  [list |-> updatePagination(l2),
         cmds |-> IF v2 # l1.filterValue THEN {FilterMsg(l2)} ELSE {}]

\* list.Model.Update for a key, as called at the end of model.Update
ListUpdateKey(m, k) ==
    LET quit == IF k = "ctrl+c" \/ (k = "q" /\ ~SettingFilter(m.list))
                THEN {QuitMsg} ELSE {}
    IN  IF k = "ctrl+c"
        THEN [m EXCEPT !.cmds = @ \cup quit]
        ELSE IF SettingFilter(m.list)
        THEN LET r == handleFiltering(m.list, k)
             IN  [m EXCEPT !.list = r.list, !.cmds = @ \cup r.cmds]
        ELSE [m EXCEPT !.list = handleBrowsing(m.list, k), !.cmds = @ \cup quit]

\* list.Model.Update for a message that is no key and no filter result
ListUpdateOther(m) ==
    IF m.focus = "list" /\ SettingFilter(m.list)
    THEN [m EXCEPT !.list = updatePagination(@)]
    ELSE m

\* model.Update for a tea.KeyMsg
UpdateKey(m, k) ==
    LET m1 == IF ~SettingFilter(m.list) THEN handleKey(m, k) ELSE m
    IN  IF m1.focus = "list" THEN ListUpdateKey(m1, k) ELSE m1

\* model.Update for a cmdMsg
UpdateCmd(m, msg) ==
    LET m1 == handleCmdCycle(m, msg)
    IN  IF m1.earlyExit THEN m1 ELSE ListUpdateOther(m1)

\* model.Update for a timer.TickMsg or timer.StartStopMsg
UpdateTimer(m, msg) ==
    LET r == TimerUpdate(m.timerM, msg)
    IN  ListUpdateOther([m EXCEPT !.timerM = r.tm, !.cmds = @ \cup r.cmds])

\* The update for a timer.TimeoutMsg, had it armed the next timer at once.
UpdateTimeoutArming(m, msg) ==
    ListUpdateOther(Rearm([m EXCEPT !.started = @ + 1]))

\* model.Update for a timer.TimeoutMsg: the timer ignores it, runCmd starts
UpdateTimeout(m, msg) ==
    ListUpdateOther([m EXCEPT !.started = @ + 1])

\* model.Update for a list.FilterMatchesMsg: only a focussed list sees it
UpdateFilterMatches(m, msg) ==
    IF m.focus = "list" THEN [m EXCEPT !.list.filtered = msg.items] ELSE m

----------------------------------------------------------------------------
(* the interactive program: mainTea runs the model until tea.Quit *)

\* The classic loop's state while the interactive program runs.
ClassicOff ==
    [pc |-> "off", prevOut |-> <<>>, out |-> "", err |-> "nil", code |-> 0, iter |-> 0]

\* newModel, and the runCmd command model.Init returns.
Init ==
    /\ errExit \in BOOLEAN
    /\ chgExit \in BOOLEAN
    /\ lineDiff = TRUE
    /\ follow = TRUE
    /\ paused = FALSE
    /\ focus = "pager"
    /\ hist = <<>>
    /\ prevT = NoTime
    /\ seleT = NoTime
    /\ pager = NoContent
    /\ timerM = ZeroTimer
    /\ lastId = ZeroTimerId
    /\ list = [items |-> <<>>, index |-> 0, filterState |-> "unfiltered",
               filterValue |-> "", filtered |-> <<>>, totalPages |-> 1,
               fresh |-> TRUE]
    /\ listSelect = FALSE
    /\ msgs = {}
    /\ inflight = 1
    /\ runs = 0
    /\ outs = <<>>
    /\ lastErr = "nil"
    /\ printed = {}
    /\ done = FALSE
    /\ exitCode = 0
    /\ sinceResume = 0
    /\ resumedAt = -1
    /\ ndiffs = 0
    /\ cl = ClassicOff

\* A tick or start/stop message of a timer that has been replaced changes
\* nothing when it arrives (timer.Model.Update rejects its id), so it is
\* not followed further.
Pending(tm, ms) ==
    {x \in ms : x.type \in {"tick", "startstop"} => ForThisTimer(tm, x)}

\* Filter commands finish in the order they were started: a result still on
\* its way when a newer filter command starts is overwritten by the newer
\* one, and only the newer one is followed.
Overtake(old, cmds) ==
    IF \E c \in cmds : c.type = "filter"
    THEN {x \in old : x.type # "filter"} \cup cmds
    ELSE old \cup cmds

\* The model Update returns becomes the program's model, and the messages
\* of the returned commands are on their way.
Commit(m, handled) ==
    /\ lineDiff' = m.lineDiff
    /\ follow' = m.follow
    /\ paused' = m.paused
    /\ focus' = m.focus
    /\ hist' = m.hist
    /\ prevT' = m.prevT
    /\ seleT' = m.seleT
    /\ pager' = m.pager
    /\ timerM' = m.timerM
    /\ lastId' = m.lastId
    /\ list' = m.list
    /\ listSelect' = m.listSelect
    /\ printed' = m.printed
    /\ ndiffs' = ndiffs + m.ndiffs
    /\ msgs' = Pending(m.timerM, Overtake(msgs \ handled, m.cmds))
    /\ UNCHANGED <<errExit, chgExit, done, exitCode, cl>>

Live == ~done /\ cl.pc = "off"

\* A key press reaches Update.
KeyMsg(k) ==
    /\ Live
    /\ k \in (IF SettingFilter(list) THEN FilterKeys ELSE BrowseKeys)
    /\ ~(k = "G" /\ Len(VisibleItems(list)) = 0)
    /\ LET m == UpdateKey(Model, k)
       IN  /\ Commit(m, {})
           /\ IF k = "p" /\ paused /\ ~m.paused
              THEN /\ resumedAt' = IF timerM.running THEN -1 ELSE timerM.Timeout
                   /\ sinceResume' = 0
              ELSE UNCHANGED <<resumedAt, sinceResume>>
    /\ inflight' = inflight + UpdateKey(Model, k).started
    /\ UNCHANGED <<runs, outs, lastErr>>

\* A runCmd command completes and its cmdMsg reaches Update.
CmdMsg(r) ==
    /\ Live
    /\ inflight > 0
    /\ runs < MaxRuns
    /\ LET m == UpdateCmd(Model, r)
       IN  /\ Commit(m, {})
           /\ IF m.lastId # lastId
              THEN resumedAt' = -1 /\ sinceResume' = 0
              ELSE UNCHANGED <<resumedAt, sinceResume>>
    /\ inflight' = inflight - 1 + UpdateCmd(Model, r).started
    /\ runs' = runs + 1
    /\ outs' = Append(outs, r.out)
    /\ lastErr' = r.err

\* A timer.TickMsg or timer.StartStopMsg reaches Update.
TimerMsg(msg) ==
    /\ Live
    /\ msg \in msgs
    /\ msg.type \in {"tick", "startstop"}
    /\ LET m == UpdateTimer(Model, msg)
       IN  /\ Commit(m, {msg})
           /\ sinceResume' = IF m.timerM.Timeout # timerM.Timeout /\ resumedAt # -1
                             THEN sinceResume + 1
                             ELSE sinceResume
    /\ UNCHANGED <<inflight, runs, outs, lastErr, resumedAt>>

\* A timer.TimeoutMsg reaches Update, which starts runCmd.
TimeoutMsgIn(msg) ==
    /\ Live
    /\ msg \in msgs
    /\ msg.type = "timeout"
    /\ LET m == UpdateTimeout(Model, msg)
       IN  /\ Commit(m, {msg})
           /\ inflight' = inflight + m.started
    /\ UNCHANGED <<runs, outs, lastErr, resumedAt, sinceResume>>

\* A list.FilterMatchesMsg reaches Update.
FilterMatchesMsg(msg) ==
    /\ Live
    /\ msg \in msgs
    /\ msg.type = "filter"
    /\ Commit(UpdateFilterMatches(Model, msg), {msg})
    /\ UNCHANGED <<inflight, runs, outs, lastErr, resumedAt, sinceResume>>

\* A tea.WindowSizeMsg reaches Update (the size itself is not modelled).
WindowSizeMsg ==
    /\ Live
    /\ Commit(ListUpdateOther(Model), {})
    /\ UNCHANGED <<inflight, runs, outs, lastErr, resumedAt, sinceResume>>

\* tea.QuitMsg ends Run without an error; mainTea and main return.
QuitMsgIn ==
    /\ Live
    /\ QuitMsg \in msgs
    /\ done' = TRUE
    /\ exitCode' = 0
    /\ msgs' = msgs \ {QuitMsg}
    /\ UNCHANGED <<errExit, chgExit, lineDiff, follow, paused, focus, hist, prevT,
                   seleT, pager, timerM, lastId, list, listSelect, inflight, runs,
                   outs, lastErr, printed, sinceResume, resumedAt, ndiffs, cl>>

Next ==
    \/ \E k \in BrowseKeys \cup FilterKeys : KeyMsg(k)
    \/ \E r \in Results : CmdMsg(r)
    \/ \E msg \in msgs : TimerMsg(msg)
    \/ \E msg \in msgs : TimeoutMsgIn(msg)
    \/ \E msg \in msgs : FilterMatchesMsg(msg)
    \/ WindowSizeMsg
    \/ QuitMsgIn

Spec == Init /\ [][Next]_vars

----------------------------------------------------------------------------
(* environments: the same program under a subset of the keys *)

\* A watched command that always starts and exits with status 0.
Successes == {r \in Results : r.err = "nil"}

\* Pause / resume and quit: the scheduling of the command.
SchedKeys == {"p", "q"}

NextSched ==
    \/ \E k \in SchedKeys : KeyMsg(k)
    \/ \E r \in Results : CmdMsg(r)
    \/ \E msg \in msgs : TimerMsg(msg)
    \/ \E msg \in msgs : TimeoutMsgIn(msg)
    \/ QuitMsgIn

SpecSched == Init /\ [][NextSched]_vars

\* Pause and resume alone, with a command that always succeeds with the
\* same output, under the event loop's scheduling: a message on its way is
\* delivered and a started command completes; key presses are up to the user.
Steady == {r \in Successes : r.out = "a"}

NextResume ==
    \/ KeyMsg("p")
    \/ \E r \in Steady : CmdMsg(r)
    \/ \E msg \in msgs : TimerMsg(msg)
    \/ \E msg \in msgs : TimeoutMsgIn(msg)
    \/ QuitMsgIn

SpecResume ==
    /\ Init
    /\ [][NextResume]_vars
    /\ WF_vars(\E msg \in msgs : TimerMsg(msg))
    /\ WF_vars(\E msg \in msgs : TimeoutMsgIn(msg))
    /\ WF_vars(\E r \in Steady : CmdMsg(r))
    /\ WF_vars(QuitMsgIn)

\* Focus, list cursor, selection, follow and diff mode, without a filter.
NavKeys == {"tab", "enter", "k", "j", "g", "G", "K", "J", "d", "f"}

NextNav ==
    \/ \E k \in NavKeys : KeyMsg(k)
    \/ \E r \in Successes : CmdMsg(r)
    \/ \E msg \in msgs : TimerMsg(msg)
    \/ \E msg \in msgs : TimeoutMsgIn(msg)
    \/ QuitMsgIn

SpecNav == Init /\ [][NextNav]_vars

\* Focus, the list filter and selection.
FilterEnvKeys == {"tab", "/", "x", "backspace", "enter", "esc", "K", "J"}

NextFilter ==
    \/ \E k \in FilterEnvKeys : KeyMsg(k)
    \/ \E r \in Successes : CmdMsg(r)
    \/ \E msg \in msgs : TimerMsg(msg)
    \/ \E msg \in msgs : TimeoutMsgIn(msg)
    \/ \E msg \in msgs : FilterMatchesMsg(msg)
    \/ WindowSizeMsg
    \/ QuitMsgIn

SpecFilter == Init /\ [][NextFilter]_vars

----------------------------------------------------------------------------
(* the classic loop: mainClassic *)

\* Non-zero exit codes of the watched command.
ChildCodes == {1, 2}

\* ProcessState.ExitCode() of a command that was never started.
NotStarted == -1

\* What c.Output() and c.ProcessState give for one run of the command.
ClassicResults ==
    [out : Outputs, err : {"nil"}, code : {0}]
    \cup [out : Outputs, err : {"ExitError"}, code : ChildCodes]
    \cup [out : {""}, err : {"launch"}, code : {NotStarted}]

\* The exit status the parent of the process sees for os.Exit(code).
ExitStatus(code) == code % 256

InitClassic ==
    /\ errExit \in BOOLEAN
    /\ chgExit \in BOOLEAN
    /\ lineDiff = TRUE
    /\ follow = TRUE
    /\ paused = FALSE
    /\ focus = "pager"
    /\ hist = <<>>
    /\ prevT = NoTime
    /\ seleT = NoTime
    /\ pager = NoContent
    /\ timerM = ZeroTimer
    /\ lastId = ZeroTimerId
    /\ list = [items |-> <<>>, index |-> 0, filterState |-> "unfiltered",
               filterValue |-> "", filtered |-> <<>>, totalPages |-> 1,
               fresh |-> TRUE]
    /\ listSelect = FALSE
    /\ msgs = {}
    /\ inflight = 0
    /\ runs = 0
    /\ outs = <<>>
    /\ lastErr = "nil"
    /\ printed = {}
    /\ done = FALSE
    /\ exitCode = 0
    /\ sinceResume = 0
    /\ resumedAt = -1
    /\ ndiffs = 0
    /\ cl = [ClassicOff EXCEPT !.pc = "run"]

\* Whether the checks of lines 802-815 end the process in this iteration.
ClassicErrExit(r) == r.err # "nil" /\ errExit

\* The chgexit check, had it not looked whether there is a previous output.
ClassicChgExitNoFirst(r) == chgExit /\ cl.prevOut # <<r.out>>

ClassicChgExit(r) == chgExit /\ cl.prevOut # <<>> /\ cl.prevOut # <<r.out>>

\* One iteration of the loop up to the sleep: run the command, print its
\* output, then exit or remember the output.
ClassicRun(r) ==
    /\ ~done
    /\ cl.pc = "run"
    /\ cl.iter < MaxRuns
    /\ IF ClassicErrExit(r)
       THEN /\ printed' = printed \cup
                    (IF r.err = "ExitError"
                     THEN {errTxtExit}
                     ELSE {})
            /\ done' = TRUE
            /\ exitCode' = ExitStatus(r.code)
            /\ cl' = [cl EXCEPT !.pc = "exit", !.out = r.out, !.err = r.err,
                                !.code = r.code, !.iter = @ + 1]
       ELSE IF ClassicChgExit(r)
       THEN /\ printed' = printed \cup {errTxtChg}
            /\ done' = TRUE
            /\ exitCode' = ExitStatus(r.code)
            /\ cl' = [cl EXCEPT !.pc = "exit", !.out = r.out, !.err = r.err,
                                !.code = r.code, !.iter = @ + 1]
       ELSE /\ cl' = [cl EXCEPT !.pc = "sleep", !.prevOut = <<r.out>>,
                                !.out = r.out, !.err = r.err, !.code = r.code,
                                !.iter = @ + 1]
            /\ UNCHANGED <<printed, done, exitCode>>
    /\ UNCHANGED <<errExit, chgExit, lineDiff, follow, paused, focus, hist, prevT,
                   seleT, pager, timerM, lastId, list, listSelect, msgs, inflight,
                   runs, outs, lastErr, sinceResume, resumedAt, ndiffs>>

\* time.Sleep(*flagInterval), then the next iteration.
ClassicSleep ==
    /\ ~done
    /\ cl.pc = "sleep"
    /\ cl' = [cl EXCEPT !.pc = "run"]
    /\ UNCHANGED <<errExit, chgExit, lineDiff, follow, paused, focus, hist, prevT,
                   seleT, pager, timerM, lastId, list, listSelect, msgs, inflight,
                   runs, outs, lastErr, printed, done, exitCode, sinceResume, resumedAt,
                   ndiffs>>

NextClassic ==
    \/ \E r \in ClassicResults : ClassicRun(r)
    \/ ClassicSleep

SpecClassic == InitClassic /\ [][NextClassic]_vars

----------------------------------------------------------------------------
(* properties *)

\* The contents of the captures of a history, oldest first.
Plains(h) == [i \in 1..Len(h) |-> h[i].plain]

\* The captures the items of a list stand for, first item first.
ItemTimes(l) == [i \in 1..Len(l.items) |-> l.items[i].t]

\* One element per maximal run of equal consecutive elements of s.
RECURSIVE OnePerRun(_)
OnePerRun(s) ==
    IF Len(s) <= 1
    THEN s
    ELSE LET d == OnePerRun(SubSeq(s, 1, Len(s) - 1))
         IN  IF s[Len(s)] = d[Len(d)] THEN d ELSE Append(d, s[Len(s)])

\* C1: the history holds one capture per maximal run of identical
\* consecutive outputs handled so far, the list one item per capture; and
\* for whatever completes next, an output equal to the newest capture leaves
\* history and list as they are, while any other output, also one equal to
\* an older capture, is appended as a new capture with a new list item.
C1_Dedup ==
    /\ Plains(hist) = OnePerRun(outs)
    /\ Len(list.items) = Len(hist)
    /\ (Live /\ inflight > 0) =>
          \A r \in Results :
              LET m == handleCmdCycle(Model, r)
              IN  IF hist # <<>> /\ r.out = hist[Newest].plain
                  THEN m.hist = hist /\ m.list = list
                  ELSE /\ Plains(m.hist) = Append(Plains(hist), r.out)
                       /\ m.hist[Len(m.hist)].prevT = prevT
                       /\ ItemTimes(m.list) = <<Len(hist) + 1>> \o ItemTimes(list)

\* C1 witness: three outputs handled, the first two equal, two captures
\* stored, and the next run, which may repeat the older capture, in flight.
C1_Witness ==
    /\ Len(outs) = 3
    /\ outs[1] = outs[2]
    /\ Len(hist) = 2
    /\ hist[1].plain # hist[2].plain
    /\ Live
    /\ inflight = 1

\* C2: with chgexit, the program ends for a content change only on an
\* output that has a predecessor and differs from it, never on the first
\* capture and never on a repeated output; after "a", "a", "b" it has ended
\* for the content change.
C2_ChgExitTiming ==
    /\ errTxtChg \in printed =>
          /\ Len(outs) >= 2
          /\ outs[Len(outs)] # outs[Len(outs) - 1]
    /\ (chgExit /\ outs = <<"a", "a", "b">>) => errTxtChg \in printed

\* A step that handles a completion event.
CmdStep == runs' = runs + 1

\* The step re-arms the timer: a new timer of a full interval, started.
Rearmed ==
    /\ lastId' = lastId + 1
    /\ timerM' = TimerNew(lastId')
    /\ TickMsg(lastId') \in msgs'

\* The step stores or dedups the output as for any other completion event.
RecordedAsNormal ==
    /\ hist' # <<>>
    /\ hist'[Len(hist')].plain = outs'[Len(outs')]
    /\ Len(hist') = Len(hist) + (IF hist = <<>> \/ hist[Newest].plain # outs'[Len(outs')]
                                 THEN 1 ELSE 0)

\* The step decides to quit for the given reason.
QuitsFor(text) == text \in printed' /\ text \notin printed /\ QuitMsg \in msgs'

\* C3 as claimed: a launch failure always quits; a non-zero exit quits for
\* the exit status exactly when errexit is on; with errexit and chgexit off
\* its output is recorded as a normal capture and the timer is re-armed.
C3_ErrExitScope ==
    [][CmdStep =>
         /\ lastErr' = "launch" => QuitsFor("Failed to run command")
         /\ lastErr' = "ExitError" => (QuitsFor(errTxtExit) <=> errExit)
         /\ (lastErr' = "ExitError" /\ ~errExit /\ ~chgExit) =>
               /\ printed' = printed
               /\ RecordedAsNormal
               /\ Rearmed]_vars

\* C3 amended: as claimed, but the timer is re-armed only when the program
\* is not paused; when paused the timer is left as it is.
C3_ErrExitScopeUnlessPaused ==
    [][CmdStep =>
         /\ lastErr' = "launch" => QuitsFor("Failed to run command")
         /\ lastErr' = "ExitError" => (QuitsFor(errTxtExit) <=> errExit)
         /\ (lastErr' = "ExitError" /\ ~errExit /\ ~chgExit) =>
               /\ printed' = printed
               /\ RecordedAsNormal
               /\ IF paused
                  THEN timerM' = timerM /\ lastId' = lastId
                  ELSE Rearmed]_vars

\* C3 witness: a second non-zero exit has just been handled with errexit and
\* chgexit off: nothing printed, both outputs stored, a full timer started.
C3_Witness ==
    /\ ~errExit /\ ~chgExit /\ ~paused
    /\ lastErr = "ExitError"
    /\ runs = 2
    /\ Len(hist) = 2
    /\ printed = {}
    /\ timerM = TimerNew(lastId)
    /\ TickMsg(lastId) \in msgs
    /\ inflight = 0

\* C4: in the classic loop a command that fails to launch ends the process
\* in that same iteration, whatever errexit is: the loop never sleeps or
\* starts another iteration after a launch failure.
C4_ClassicLaunchFailureFatal ==
    (cl.pc # "off" /\ cl.err = "launch") => (cl.pc = "exit" /\ done)

\* C5: when the interactive program has ended, its exit code is 0 if the
\* user quit by key and nothing fatal was decided, and non-zero if
\* handleCmdCycle decided to quit for errexit, chgexit or a launch failure.
C5_InteractiveExitCodes ==
    (cl.pc = "off" /\ done) =>
        IF printed \cap {errTxtExit, errTxtChg, "Failed to run command"} = {}
        THEN exitCode = 0
        ELSE exitCode # 0

\* C6: at most one runCmd command is outstanding in every reachable state,
\* whatever the order of ticks, timeouts, completions and pause keys: none
\* is started before the completion of the previous one has been handled.
C6_AtMostOneInFlight == inflight <= 1

\* C6 witness: after a completion the re-armed timer has expired and its
\* timeout has started the next run, while the program is paused.
C6_Witness ==
    /\ inflight = 1
    /\ runs >= 1
    /\ lastId >= 1
    /\ Timedout(timerM)
    /\ paused
    /\ TimeoutMsg(timerM.id) \notin msgs

\* C7: whenever handleCmdCycle inserts a new distinct capture while follow
\* is true, the selected capture afterwards is that newest capture, after
\* any keys that left follow true (go-to-start, go-to-end, focus switches).
C7_FollowSelectsNewest ==
    [][(CmdStep /\ Len(hist') = Len(hist) + 1 /\ follow') =>
          seleT' = Len(hist')]_vars

\* C8: a navigate key (content up, content down; while a filter is being
\* typed the keys are text, not navigation) makes follow false, and
\* while follow is false every newly inserted capture leaves the selected
\* capture as it is and leaves the list cursor on the capture it was on
\* before the insertion (stated for a program that is not about to quit).
C8_NavigateFreezesSelection ==
    [][/\ ~SettingFilter(list) => \A k \in {"K", "J"} : ~UpdateKey(Model, k).follow
       /\ (CmdStep /\ ~follow /\ hist # <<>> /\ Len(hist') = Len(hist) + 1
             /\ QuitMsg \notin msgs) =>
             /\ seleT' = seleT
             /\ SelectedItem(list').t = SelectedItem(list).t]_vars

\* C9: while paused no capture is added to the history, also not by the
\* completion of a command that was in flight when pause was pressed.
C9_NoCaptureWhilePaused ==
    [][paused => Len(hist') = Len(hist)]_vars

C11_PreviousChain ==
    [][/\ \A i \in 1..Len(hist') : hist'[i].prevT = i - 1
       /\ prevT' = Len(hist')
       /\ Len(hist') >= Len(hist)
       /\ \A i \in 1..Len(hist) :
             /\ hist'[i].plain = hist[i].plain
             /\ hist'[i].prevT = hist[i].prevT]_vars

\* C11 witness: three captures chained 3 -> 2 -> 1 -> none, inserted while an
\* older capture was selected, and a diff attached to a stored capture.
C11_Witness ==
    /\ Len(hist) = 3
    /\ hist[3].prevT = 2 /\ hist[2].prevT = 1 /\ hist[1].prevT = NoTime
    /\ seleT = 1
    /\ hist[2].diffL # NoDiff

\* The cache slots of the history that hold a diff.
FilledSlots(h) ==
    {<<i, "L">> : i \in {j \in 1..Len(h) : h[j].diffL # NoDiff}}
    \cup {<<i, "C">> : i \in {j \in 1..Len(h) : h[j].diffC # NoDiff}}

\* C12: a diff is computed at most once per capture and mode: every
\* computation fills a slot that was empty (as many computations as filled
\* slots), a filled slot is never written again, and each mode has its own
\* slot, holding the diff of that mode against the capture's previous.
C12_DiffMemoized ==
    [][/\ ndiffs' = Cardinality(FilledSlots(hist'))
       /\ \A i \in 1..Len(hist) :
             /\ hist[i].diffL # NoDiff => hist'[i].diffL = hist[i].diffL
             /\ hist[i].diffC # NoDiff => hist'[i].diffC = hist[i].diffC
       /\ \A i \in 1..Len(hist') :
             /\ hist'[i].diffL # NoDiff => hist'[i].diffL = <<"L", hist'[i].prevT, i>>
             /\ hist'[i].diffC # NoDiff => hist'[i].diffC = <<"C", hist'[i].prevT, i>>]_vars

\* C12 witness: both diffs of the second capture have been computed, two
\* computations in all, and the line diff is on display again.
C12_Witness ==
    /\ Len(hist) = 2
    /\ hist[2].diffL # NoDiff
    /\ hist[2].diffC # NoDiff
    /\ ndiffs = 2
    /\ seleT = 2
    /\ pager = hist[2].diffL

\* The list item of capture t.
ItemOf(l, t) == CHOOSE it \in {l.items[i] : i \in 1..Len(l.items)} : it.t = t

\* C13: whenever the diff of a capture is on display in a mode, the text is
\* that capture's diff of that mode and its list item carries the counters
\* of that mode, the first time and every later time, also after the other
\* mode was displayed in between.
C13_DiffDeterminism ==
    (seleT # NoTime /\ pager[1] \in {"L", "C"}) =>
        /\ pager = <<pager[1], hist[seleT].prevT, seleT>>
        /\ ItemOf(list, seleT).stats = pager[1]

\* C14: whenever the toggle-follow key turns follow on, in either focus and
\* from any cursor position, the selected capture is the newest capture as
\* soon as the key has been handled.
C14_FollowLatest ==
    [][(~follow /\ follow') => seleT' = Len(hist')]_vars

\* The capture next to t in the reverse-chronological list: the newer one
\* for up, the older one for down, t itself at the ends.
Adjacent(t, k) ==
    IF k = "K"
    THEN (IF t = Len(hist) THEN t ELSE t + 1)
    ELSE (IF t = 1 THEN t ELSE t - 1)

\* C15: with a capture selected, content up / content down makes
\* follow false and selects the capture adjacent to the selected one, the
\* same one at the newest end for up and at the oldest end for down.
C15_NavigateAdjacent ==
    (Live /\ seleT # NoTime /\ ~SettingFilter(list)) =>
        \A k \in {"K", "J"} :
            LET m == UpdateKey(Model, k)
            IN  /\ ~m.follow
                /\ m.seleT = Adjacent(seleT, k)

\* C16: a capture is added only by a completion event of a command that
\* was launched (success or non-zero exit) whose output differs from the
\* newest capture or meets an empty history; a completion event reporting a
\* launch failure adds no capture.
C16_CaptureLifecycle ==
    [][/\ Len(hist') > Len(hist) =>
             /\ CmdStep
             /\ lastErr' # "launch"
             /\ hist = <<>> \/ hist[Newest].plain # outs'[Len(outs')]
       /\ (CmdStep /\ lastErr' = "launch") => Len(hist') = Len(hist)]_vars

\* C17: only the exit evaluation of a completion event and the quit keys end
\* the program: under navigation, selection, focus, follow and diff-mode keys
\* (no quit key is pressed) a quit is decided only by a step that handles a
\* completion event, also before the first capture exists.
C17_OnlyExitEvaluationQuits ==
    [][(QuitMsg \in msgs' /\ QuitMsg \notin msgs) => CmdStep]_vars

\* A step that runs one iteration of the classic loop.
ClassicStep == cl'.iter = cl.iter + 1

\* C18: with chgexit the classic loop never ends for a content change in
\* its first iteration, and ends for it in a later iteration exactly when
\* that iteration's output differs from the output of the iteration before,
\* unless errexit has ended the iteration first; without chgexit never.
C18_ClassicChgExit ==
    [][ClassicStep =>
          ((errTxtChg \in printed' /\ done' /\ cl'.pc = "exit")
             <=> /\ chgExit
                 /\ cl.iter >= 1
                 /\ cl'.out # cl.out
                 /\ ~(errExit /\ cl'.err # "nil"))]_vars

\* C18 witness: chgexit, and the loop has ended for the content change in
\* its third iteration, after two iterations with the same output.
C18_Witness ==
    /\ chgExit
    /\ cl.iter = 3
    /\ cl.pc = "exit"
    /\ errTxtChg \in printed
    /\ cl.prevOut # <<cl.out>>

\* C19: when the classic loop has ended for the errexit trigger (a non-zero
\* exit with errexit) or for the chgexit trigger, the command of that
\* iteration has run and the exit code of the process is the exit code of
\* that command.
C19_ClassicExitCode ==
    (/\ cl.pc = "exit"
     /\ done
     /\ (errTxtExit \in printed \/ errTxtChg \in printed)) =>
        /\ cl.err # "launch"
        /\ exitCode = cl.code

\* C20: the timer never counts down while a runCmd command is outstanding,
\* and a new timer is armed only by the step that handles a completion
\* event: the output of that event is then the newest capture, the step has
\* decided no quit, and no command is outstanding.
C20_TimerCommandExclusive ==
    [][/\ ~(Running(timerM) /\ inflight > 0)
       /\ ~(Running(timerM') /\ inflight' > 0)
       /\ lastId' # lastId =>
             /\ CmdStep
             /\ Rearmed
             /\ inflight' = 0
             /\ hist' # <<>>
             /\ hist'[Len(hist')].plain = outs'[Len(outs')]
             /\ (QuitMsg \in msgs' => QuitMsg \in msgs)]_vars

\* C20 witness: the second timer counts down after the second completion,
\* with no command outstanding; the first one expired and started that run.
C20_Witness ==
    /\ runs = 2
    /\ lastId = 2
    /\ Running(timerM)
    /\ timerM.Timeout < Interval
    /\ inflight = 0
    /\ ~paused

\* C21: while the program is paused no command is started: a step that begins
\* and ends paused (any message but the pause key) leaves the number of
\* outstanding runCmd commands as it is or lower, whatever ticks and
\* timeouts were on their way when the pause key was handled.
C21_NoRunWhilePaused ==
    [][(paused /\ paused') => inflight' <= inflight]_vars

\* C22: whenever the program is running, not paused and no command is
\* outstanding, eventually a command is started, unless the user pauses or
\* the program ends first; also after a pause and resume around a completion.
C22_ResumeLiveness ==
    (Live /\ ~paused /\ inflight = 0 /\ QuitMsg \notin msgs)
        ~> (inflight > 0 \/ paused \/ ~Live \/ QuitMsg \in msgs)

\* C23: when a completion event with chgexit on both changes the content
\* and is a launch failure, the step reports the launch failure only and
\* decides to quit; when it both changes the content and is a non-zero exit
\* with errexit on, it reports the exit status only and decides to quit. The
\* content-change text is reported in neither case.
C23_FatalPrecedence ==
    [][(CmdStep /\ chgExit /\ Len(hist') > Len(hist)) =>
          /\ lastErr' = "launch" =>
                /\ printed' = printed \cup {"Failed to run command"}
                /\ errTxtChg \notin printed'
                /\ QuitMsg \in msgs'
          /\ (lastErr' = "ExitError" /\ errExit) =>
                /\ printed' = printed \cup {errTxtExit}
                /\ errTxtChg \notin printed'
                /\ QuitMsg \in msgs']_vars

\* C23 witness: with chgexit and errexit on, a completion was a non-zero exit
\* whose output was stored as a new capture, so that the content-change
\* check of line 570 would have fired too, and the exit status is what was
\* reported.
C23_Witness ==
    /\ chgExit
    /\ errExit
    /\ runs = 1
    /\ Len(hist) = 1
    /\ ChgFatal(Model, TRUE)
    /\ lastErr = "ExitError"
    /\ printed = {errTxtExit}
    /\ QuitMsg \in msgs

\* What an item shows when its three counters are all c.
AllCounters(c) == [lev |-> c, additions |-> c, deletions |-> c]

\* C24 as stated: while the capture without a previous one is selected, in
\* either diff mode, the text on display is its raw content and its list
\* item shows 0 for the edit distance, the insertions and the deletions.
C24_FirstCaptureZeroCounters ==
    (seleT # NoTime /\ hist[seleT].prevT = NoTime) =>
        /\ pager = Content("plain", NoTime, seleT)
        /\ \A i \in 1..Len(list.items) :
              list.items[i].t = seleT =>
                  Description(list.items[i]) = AllCounters("0")

\* C24 amended: while the capture without a previous one is selected, in
\* either diff mode, the text on display is its raw content, and its list
\* item never gets counters: it shows n/a for the edit distance, the
\* insertions and the deletions.
C24_FirstCaptureNoCounters ==
    /\ (seleT # NoTime /\ hist[seleT].prevT = NoTime) =>
          pager = Content("plain", NoTime, seleT)
    /\ \A i \in 1..Len(list.items) :
          hist[list.items[i].t].prevT = NoTime =>
              Description(list.items[i]) = AllCounters("n/a")

\* C24 witness: with three captures, the first one was selected again in
\* character mode after the diffs of the second were computed in both modes.
C24_Witness ==
    /\ Len(hist) = 3
    /\ seleT = 1
    /\ ~lineDiff
    /\ ~follow
    /\ hist[2].diffL # NoDiff
    /\ hist[2].diffC # NoDiff
    /\ pager = Content("plain", NoTime, 1)
    /\ ItemOf(list, 1).stats = "n/a"

\* C25: with a capture stored, the diff-mode key flips lineDiff and leaves
\* follow, paused, the captures and the selected capture as they are, in
\* pager focus and in list focus, wherever the list cursor is.
C25_ToggleDiffModeFrame ==
    (Live /\ hist # <<>> /\ ~SettingFilter(list)) =>
        LET m == UpdateKey(Model, "d")
        IN  /\ m.lineDiff = ~lineDiff
            /\ m.follow = follow
            /\ m.paused = paused
            /\ Plains(m.hist) = Plains(hist)
            /\ m.seleT = seleT

\* C26: the list holds exactly one item per stored capture, the newest
\* first, each keyed by its own capture's time, after every completion,
\* navigation, filter and diff step: setting an item's counters never
\* replaces the item of another capture, also while a filter is applied.
C26_ListMatchesHistory ==
    /\ Len(list.items) = Len(hist)
    /\ \A i \in 1..Len(list.items) : list.items[i].t = Len(hist) - i + 1

====
